---------------------------- MODULE Spec2Model ----------------------------
(***************************************************************************)
(* A state-machine model of SdeLib (sde.h, Entity.cpp, EntityNoParent.cpp):*)
(* the Entity / Component container with its active-state model, the       *)
(* AutoList live registry and the EventHandler dispatch mechanism.         *)
(*                                                                         *)
(* Objects are identified by their address.  A freed address may be handed *)
(* out again by a later allocation, as the allocator of a C++ program may. *)
(***************************************************************************)
EXTENDS Integers, Sequences, FiniteSets, TLC

\* ------------------------------------------------------------------ bounds
\* Number of heap addresses a component may be allocated at.
NumCompAddr == 3
\* Largest number of components one Entity holds at a time.
MaxComponents == 2
\* Number of addresses an Entity may be constructed at.
NumEntityAddr == 4
\* Largest number of Entity constructions in one run of the registry.
MaxConstructions == 5
\* Number of addresses an EventHandler object may live at.
NumHandlerAddr == 2
\* Largest number of registerFunc calls in one run.
MaxRegistrations == 2
\* Largest number of tags one Entity holds at a time.
MaxTags == 2

CompAddr == 1..NumCompAddr
EntityAddr == 1..NumEntityAddr
\* nullptr
Null == 0
\* Concrete component classes (typeid of the object) a caller instantiates.
CompTypes == {"Health", "Position"}
HandlerAddr == 1..NumHandlerAddr
\* Concrete event structs (typeid of the event) a caller sends.
EventTypes == {"X", "Y"}
\* Member functions of the handler class that take an event pointer.
Funcs == {"f", "g"}
\* Tag strings a caller passes.
Tags == {"a", "b"}

VARIABLES
    \* AutoList<Entity>::m_ref, the static vector of registered instances
    m_ref,
    \* the Entity objects whose lifetime has begun and not ended
    liveEntity,
    \* number of Entity constructions / destructions so far (observers)
    nConstructed,
    nDestroyed,
    \* observer: per Entity address, the number of the construction that made
    \* the live instance there (1 for the first construction; 0 when no
    \* instance is live at the address)
    birth,
    \* Entity::m_component, per Entity: the owned components in insertion order
    m_component,
    \* Entity::m_active, per Entity
    m_active,
    \* Entity::m_compActiveMap, per Entity: ComponentBase* -> bool
    m_compActiveMap,
    \* typeid(*p) of the component object at each address ("none" when free)
    compType,
    \* ComponentBase::m_active of the component object at each address
    compActive,
    \* observer: the last operation called on an Entity, with its arguments
    lastOp,
    \* observer: while the last calls on an Entity are setActive(false) k times
    \* in a row (k = 2 stands for two or more), optionally followed by one
    \* setActive(true): the component flags before the last of these suspends
    \* (flags) and before the first of them (first).  Calls of
    \* setAllComponentsActive between the suspends and the setActive(true) turn
    \* the kind into "suspendedSetAll" and then "resumedAfterSetAll".
    pending,
    \* the EventHandler objects whose lifetime has begun and not ended
    liveHandler,
    \* EventHandler::m_funcMap, per handler: type_index -> FuncWrapper
    m_funcMap,
    \* EventHandler::m_receiverMap (static): type_index -> vector<EventHandler *>
    m_receiverMap,
    \* observer: every registerFunc call so far, per event type, in call order
    regLog,
    \* observer: per handler object and event type, the wrappers registered on
    \* it since it was constructed, in call order
    bindings,
    \* observer: the last event operation, with its arguments
    evOp,
    \* observer: the handlers handleEvent was invoked on by the last operation
    delivered,
    \* observer: the member-function calls the last operation made, in order
    invoked,
    \* observer: the last operation dereferenced a destroyed object
    ub,
    \* Entity::m_tag, per Entity: the tags in insertion order
    m_tag

entityVars == <<m_component, m_active, m_compActiveMap, compType, compActive,
                m_tag>>
registryVars == <<m_ref, liveEntity, nConstructed, nDestroyed, birth>>
observerVars == <<lastOp, pending>>
eventVars == <<liveHandler, m_funcMap, m_receiverMap, regLog, bindings, evOp,
               delivered, invoked, ub>>

\* ------------------------------------------------------------- helpers
Range(s) == {s[i] : i \in 1..Len(s)}

\* s without its i-th element (vector::erase(it))
EraseAt(s, i) == [j \in 1..(Len(s) - 1) |-> IF j < i THEN s[j] ELSE s[j + 1]]

\* std::find: index of the first element equal to x, 0 for end()
FindIndex(s, x) ==
    IF \E i \in 1..Len(s) : s[i] = x
    THEN CHOOSE i \in 1..Len(s) : s[i] = x /\ \A j \in 1..(i - 1) : s[j] # x
    ELSE 0

\* std::map::erase of key k
MapErase(f, k) == [x \in (DOMAIN f) \ {k} |-> f[x]]

\* std::map::operator[]= : insert or overwrite
MapPut(f, k, v) == [x \in (DOMAIN f) \cup {k} |-> IF x = k THEN v ELSE f[x]]

EmptyMap == [x \in {} |-> TRUE]

NoOp == [op |-> "none", ent |-> Null, b |-> FALSE, type |-> "none", addr |-> Null, n |-> 0]
NoPending == [kind |-> "none", ent |-> Null, flags |-> EmptyMap,
              first |-> EmptyMap, k |-> 0]

\* The flags of the components a vector of components holds.
FlagsOf(comps) == [a \in Range(comps) |-> compActive[a]]

\* Number of components of concrete type T in a vector of components.
CountOfType(comps, T) == Cardinality({i \in 1..Len(comps) : compType[comps[i]] = T})


\* ------------------------------------------------- Entity: component lookup
\* Variant of FindFirstOfType: compares typeid(up.get()), the static type of
\* the pointer, which is never T.
FindFirstOfType_pointerTypeid(comps, T) == 0

\* Variant of FindFirstOfType: the scan keeps the last match instead of
\* stopping at the first.
FindFirstOfType_lastMatch(comps, T) ==
    IF \E i \in 1..Len(comps) : compType[comps[i]] = T
    THEN CHOOSE i \in 1..Len(comps) :
            /\ compType[comps[i]] = T
            /\ \A j \in (i + 1)..Len(comps) : compType[comps[j]] # T
    ELSE 0

\* std::find_if over m_component with typeid(*up.get()) == typeid(T):
\* index of the first component whose concrete type is T, 0 for end()
FindFirstOfType(comps, T) ==
    IF \E i \in 1..Len(comps) : compType[comps[i]] = T
    THEN CHOOSE i \in 1..Len(comps) :
            /\ compType[comps[i]] = T
            /\ \A j \in 1..(i - 1) : compType[comps[j]] # T
    ELSE 0

\* Entity::getComponent<T>() const
getComponent(e, T) ==
    LET it == FindFirstOfType(m_component[e], T)
    IN  IF it # 0 THEN m_component[e][it] ELSE Null

\* ------------------------------------------------- Entity: active state
\* Entity::setActive(false), the map after the loop over m_component:
\* m_compActiveMap[up.get()] = up->active() for every owned component
SavedActiveMap(map, comps) ==
    [p \in (DOMAIN map) \cup Range(comps) |->
        IF p \in Range(comps) THEN compActive[p] ELSE map[p]]

\* Entity::setActive(false), the component flags after the loop:
\* up->setActive(false) for every owned component
SuspendedFlags(flags, comps) ==
    [a \in DOMAIN flags |-> IF a \in Range(comps) THEN FALSE ELSE flags[a]]

\* Variant of RestoredFlags: resuming forces every saved component active.
RestoredFlags_forceActive(flags, map) ==
    [a \in DOMAIN flags |-> IF a \in DOMAIN map THEN TRUE ELSE flags[a]]

\* Variant of RestoredFlags: resuming reads m_compActiveMap[p] for every
\* component, so a component without an entry reads the default, false.
RestoredFlags_defaultEntry(flags, map) ==
    [a \in DOMAIN flags |-> IF a \in DOMAIN map THEN map[a] ELSE FALSE]

\* Entity::setActive(true), the component flags after the loop over the map:
\* pair.first->setActive(pair.second)
RestoredFlags(flags, map) ==
    [a \in DOMAIN flags |-> IF a \in DOMAIN map THEN map[a] ELSE flags[a]]

\* Entity::setActive(bool b).  lastOp.addr records the component that the
\* preceding call added while the Entity was suspended, if any; lastOp.type
\* the state of the Entity before the call and lastOp.n the number of owned
\* components whose flag the call changed.
SetActive(e, b) ==
    /\ e \in liveEntity
    /\ m_active' = [m_active EXCEPT ![e] = b]
    /\ IF b
       THEN /\ compActive' = RestoredFlags(compActive, m_compActiveMap[e])
            /\ UNCHANGED m_compActiveMap
       ELSE /\ m_compActiveMap' =
                [m_compActiveMap EXCEPT ![e] = SavedActiveMap(@, m_component[e])]
            /\ compActive' = SuspendedFlags(compActive, m_component[e])
    /\ lastOp' = [NoOp EXCEPT !.op = "setActive", !.ent = e, !.b = b,
                     !.addr = IF /\ lastOp.op = "addComponent"
                                 /\ lastOp.ent = e
                                 /\ ~m_active[e]
                              THEN lastOp.addr ELSE Null,
                     !.type = IF m_active[e] THEN "Active" ELSE "Suspended",
                     !.n = Cardinality({p \in Range(m_component[e]) :
                                           compActive'[p] # compActive[p]})]
    /\ pending' =
         IF ~b
         THEN [kind |-> "suspended", ent |-> e,
               flags |-> FlagsOf(m_component[e]),
               first |-> IF pending.kind = "suspended" /\ pending.ent = e
                         THEN pending.first ELSE FlagsOf(m_component[e]),
               k |-> IF pending.kind = "suspended" /\ pending.ent = e
                     THEN 2 ELSE 1]
         ELSE IF pending.kind = "suspended" /\ pending.ent = e
              THEN [pending EXCEPT !.kind = "resumed"]
              ELSE IF pending.kind = "suspendedSetAll" /\ pending.ent = e
                   THEN [pending EXCEPT !.kind = "resumedAfterSetAll"]
                   ELSE NoPending
    /\ UNCHANGED <<m_component, compType>>
    /\ UNCHANGED m_tag
    /\ UNCHANGED registryVars
    /\ UNCHANGED eventVars

\* ------------------------------------------------- Entity: component management
\* the component vector after push_back(std::make_unique<T>(args...))
PushBack(comps, p) == Append(comps, p)

\* Entity::addComponent<T>(args...): the new object is allocated at any free
\* address; ComponentBase's constructor sets m_active to true.  lastOp.n is
\* the number of components of type T held before the call; lastOp.b records
\* that the new object reuses the address of a component that was removed by
\* the preceding call while the restoration map had an entry for it.
AddComponent(e, T) ==
    /\ e \in liveEntity
    /\ Len(m_component[e]) < MaxComponents
    /\ \E p \in CompAddr :
         /\ compType[p] = "none"
         /\ compType' = [compType EXCEPT ![p] = T]
         /\ compActive' = [compActive EXCEPT ![p] = TRUE]
         /\ m_component' = [m_component EXCEPT ![e] = PushBack(@, p)]
         /\ lastOp' = [NoOp EXCEPT !.op = "addComponent", !.ent = e, !.type = T,
                          !.addr = p, !.n = CountOfType(m_component[e], T),
                          !.b = /\ lastOp.op = "removeComponent"
                                /\ lastOp.ent = e
                                /\ lastOp.addr = p
                                /\ lastOp.b]
    /\ pending' = NoPending
    /\ UNCHANGED <<m_active, m_compActiveMap>>
    /\ UNCHANGED m_tag
    /\ UNCHANGED registryVars
    /\ UNCHANGED eventVars

\* Variant of RemovedActiveMap: the saved entry is not erased.
RemovedActiveMap_keepEntry(map, p) == map

\* Entity::removeComponent<T>(), the restoration map after the call
RemovedActiveMap(map, p) ==
    IF p \in DOMAIN map THEN MapErase(map, p) ELSE map

\* Variant of RemovedComponents: erases the last component (pop_back).
RemovedComponents_popBack(comps, it) == SubSeq(comps, 1, Len(comps) - 1)

\* Entity::removeComponent<T>(), the component vector after the call
RemovedComponents(comps, it) == EraseAt(comps, it)

\* Entity::removeComponent<T>(): erasing the unique_ptr destroys the object
\* and frees its address.  lastOp.b records whether the removed component
\* had an entry in the restoration map.
RemoveComponent(e, T) ==
    /\ e \in liveEntity
    /\ LET it == FindFirstOfType(m_component[e], T)
           p == IF it # 0 THEN m_component[e][it] ELSE Null
           erased == RemovedComponents(m_component[e], it)
           freed == Range(m_component[e]) \ Range(erased)
       IN  /\ IF it # 0
              THEN /\ m_compActiveMap' =
                        [m_compActiveMap EXCEPT ![e] = RemovedActiveMap(@, p)]
                   /\ m_component' = [m_component EXCEPT ![e] = erased]
                   /\ compType' = [a \in CompAddr |->
                                     IF a \in freed THEN "none" ELSE compType[a]]
                   /\ compActive' = [a \in CompAddr |->
                                     IF a \in freed THEN FALSE ELSE compActive[a]]
              ELSE UNCHANGED <<m_compActiveMap, m_component, compType, compActive>>
           /\ lastOp' = [NoOp EXCEPT !.op = "removeComponent", !.ent = e, !.type = T,
                            !.addr = p, !.n = CountOfType(m_component[e], T),
                            !.b = (p \in DOMAIN m_compActiveMap[e])]
    /\ pending' = NoPending
    /\ UNCHANGED m_active
    /\ UNCHANGED m_tag
    /\ UNCHANGED registryVars
    /\ UNCHANGED eventVars

\* Variant of AllComponentsFlags: the loop stops one component short of the
\* end of the vector.
AllComponentsFlags_skipLast(flags, comps, b) ==
    [a \in DOMAIN flags |->
        IF a \in Range(SubSeq(comps, 1, Len(comps) - 1)) THEN b ELSE flags[a]]

\* Entity::setAllComponentsActive(bool b), the component flags after the loop
AllComponentsFlags(flags, comps, b) ==
    [a \in DOMAIN flags |-> IF a \in Range(comps) THEN b ELSE flags[a]]

\* Entity::setAllComponentsActive(bool b)
SetAllComponentsActive(e, b) ==
    /\ e \in liveEntity
    /\ compActive' = AllComponentsFlags(compActive, m_component[e], b)
    /\ lastOp' = [NoOp EXCEPT !.op = "setAllComponentsActive", !.ent = e, !.b = b]
    /\ pending' = IF /\ pending.kind \in {"suspended", "suspendedSetAll"}
                     /\ pending.ent = e
                  THEN [pending EXCEPT !.kind = "suspendedSetAll"]
                  ELSE NoPending
    /\ UNCHANGED <<m_component, m_active, m_compActiveMap, compType>>
    /\ UNCHANGED m_tag
    /\ UNCHANGED registryVars
    /\ UNCHANGED eventVars

\* ComponentBase::setActive(bool b) on a component an Entity owns
ComponentSetActive(e, p, b) ==
    /\ e \in liveEntity
    /\ p \in Range(m_component[e])
    /\ compActive' = [compActive EXCEPT ![p] = b]
    /\ lastOp' = [NoOp EXCEPT !.op = "ComponentBase::setActive", !.ent = e,
                     !.addr = p, !.b = b]
    /\ pending' = NoPending
    /\ UNCHANGED <<m_component, m_active, m_compActiveMap, compType>>
    /\ UNCHANGED m_tag
    /\ UNCHANGED registryVars
    /\ UNCHANGED eventVars

\* ------------------------------------------------- Entity: tag management
\* Entity::addTag, the tag vector after m_tag.emplace_back(tag)
TagsAfterAdd(tags, tag) == Append(tags, tag)

\* Entity::addTag(tag).  lastOp.type is the tag, lastOp.n the number of its
\* occurrences before the call.
AddTag(e, tag) ==
    /\ e \in liveEntity
    /\ Len(m_tag[e]) < MaxTags
    /\ m_tag' = [m_tag EXCEPT ![e] = TagsAfterAdd(@, tag)]
    /\ lastOp' = [NoOp EXCEPT !.op = "addTag", !.ent = e, !.type = tag,
                     !.n = Cardinality({i \in 1..Len(m_tag[e]) : m_tag[e][i] = tag})]
    /\ pending' = NoPending
    /\ UNCHANGED <<m_component, m_active, m_compActiveMap, compType, compActive>>
    /\ UNCHANGED registryVars
    /\ UNCHANGED eventVars

\* Entity::hasTag(tag) const
hasTag(e, tag) ==
    LET it == FindIndex(m_tag[e], tag)
    IN  IF it # 0 THEN TRUE ELSE FALSE

\* Variant of TagsAfterRemove: erases at the iterator without testing it
\* against end(); past the end the last tag goes.
TagsAfterRemove_unchecked(tags, tag) ==
    LET it == FindIndex(tags, tag)
    IN  IF it # 0 THEN EraseAt(tags, it)
        ELSE SubSeq(tags, 1, Len(tags) - 1)

\* Variant of TagsAfterRemove: erases every tag equal to the argument
\* (erase-remove idiom).
TagsAfterRemove_all(tags, tag) == SelectSeq(tags, LAMBDA x : x # tag)

\* Entity::removeTag, the tag vector after std::find and the guarded erase
TagsAfterRemove(tags, tag) ==
    LET it == FindIndex(tags, tag)
    IN  IF it # 0 THEN EraseAt(tags, it) ELSE tags

\* Entity::removeTag(tag).  lastOp.type is the tag, lastOp.n the number of its
\* occurrences before the call.
RemoveTag(e, tag) ==
    /\ e \in liveEntity
    /\ m_tag' = [m_tag EXCEPT ![e] = TagsAfterRemove(@, tag)]
    /\ lastOp' = [NoOp EXCEPT !.op = "removeTag", !.ent = e, !.type = tag,
                     !.n = Cardinality({i \in 1..Len(m_tag[e]) : m_tag[e][i] = tag})]
    /\ pending' = NoPending
    /\ UNCHANGED <<m_component, m_active, m_compActiveMap, compType, compActive>>
    /\ UNCHANGED registryVars
    /\ UNCHANGED eventVars

\* Entity::getTags()
getTags(e) == m_tag[e]

\* ------------------------------------------------- AutoList<Entity>
\* AutoList(): m_ref.push_back(static_cast<T *>(this))
RefPushBack(ref, p) == Append(ref, p)

\* Variant of RefErase: moves the last registered instance into the place of
\* the erased one (swap and pop_back).
RefErase_swapPop(ref, p) ==
    LET it == FindIndex(ref, p)
    IN  IF it = 0 THEN ref
        ELSE [j \in 1..(Len(ref) - 1) |-> IF j = it THEN ref[Len(ref)] ELSE ref[j]]

\* Variant of RefErase: erases the last registered instance (pop_back).
RefErase_popBack(ref, p) == SubSeq(ref, 1, Len(ref) - 1)

\* ~AutoList(): std::find, then erase when found
RefErase(ref, p) ==
    LET it == FindIndex(ref, p)
    IN  IF it # 0 THEN EraseAt(ref, it) ELSE ref

\* AutoList<T>::size()
size == Len(m_ref)

\* AutoList<T>::get(index)
get(index) == m_ref[index + 1]

\* Entity::Entity(): AutoList() registers the instance, m_active{ true };
\* the object is constructed at any address no live Entity occupies
ConstructEntity(e) ==
    /\ e \notin liveEntity
    /\ nConstructed < MaxConstructions
    /\ liveEntity' = liveEntity \cup {e}
    /\ m_ref' = RefPushBack(m_ref, e)
    /\ nConstructed' = nConstructed + 1
    /\ birth' = [birth EXCEPT ![e] = nConstructed + 1]
    /\ m_active' = [m_active EXCEPT ![e] = TRUE]
    /\ m_component' = [m_component EXCEPT ![e] = <<>>]
    /\ m_compActiveMap' = [m_compActiveMap EXCEPT ![e] = EmptyMap]
    /\ m_tag' = [m_tag EXCEPT ![e] = <<>>]
    /\ lastOp' = [NoOp EXCEPT !.op = "Entity", !.ent = e]
    /\ pending' = NoPending
    /\ UNCHANGED <<compType, compActive, nDestroyed>>
    /\ UNCHANGED eventVars

\* Entity::~Entity(): the members are destroyed (every owned component with
\* m_component), then ~AutoList() unregisters the instance.  lastOp.n is the
\* position (from 1) the instance had in m_ref.
DestroyEntity(e) ==
    /\ e \in liveEntity
    /\ liveEntity' = liveEntity \ {e}
    /\ m_ref' = RefErase(m_ref, e)
    /\ nDestroyed' = nDestroyed + 1
    /\ birth' = [birth EXCEPT ![e] = 0]
    /\ compType' = [a \in CompAddr |->
                      IF a \in Range(m_component[e]) THEN "none" ELSE compType[a]]
    /\ compActive' = [a \in CompAddr |->
                      IF a \in Range(m_component[e]) THEN FALSE ELSE compActive[a]]
    /\ m_component' = [m_component EXCEPT ![e] = <<>>]
    /\ m_compActiveMap' = [m_compActiveMap EXCEPT ![e] = EmptyMap]
    /\ m_active' = [m_active EXCEPT ![e] = TRUE]
    /\ m_tag' = [m_tag EXCEPT ![e] = <<>>]
    /\ lastOp' = [NoOp EXCEPT !.op = "~Entity", !.ent = e,
                     !.n = FindIndex(m_ref, e)]
    /\ pending' = NoPending
    /\ UNCHANGED nConstructed
    /\ UNCHANGED eventVars

\* ------------------------------------------------- EventHandler
NoEvOp == [op |-> "none", this |-> Null, type |-> "none"]

\* std::make_shared<FuncWrapper<T, ET>>(caller, func)
FuncWrapper(caller, func) == [m_caller |-> caller, m_func |-> func]

\* FuncWrapper::call: (m_caller->*m_func)(evnt), the call it makes
call(w) == [object |-> w.m_caller, func |-> w.m_func]

\* Variant of FuncMapAssign: m_funcMap.insert, which keeps an existing binding.
FuncMapAssign_insert(fm, ti, w) == IF ti \in DOMAIN fm THEN fm ELSE MapPut(fm, ti, w)

\* Variant of FuncMapAssign: the wrapper is never stored.
FuncMapAssign_dropped(fm, ti, w) == fm

\* registerFunc: m_funcMap[ti] = make_shared<FuncWrapper>(caller, func)
FuncMapAssign(fm, ti, w) == MapPut(fm, ti, w)

\* Variant of ReceiverEmplaceBack: an instance already listed is not added again.
ReceiverEmplaceBack_unique(list, this, caller) ==
    IF caller \in Range(list) THEN list ELSE Append(list, caller)

\* Variant of ReceiverEmplaceBack: the instance is inserted at the front.
ReceiverEmplaceBack_front(list, this, caller) == <<caller>> \o list

\* registerFunc: m_receiverMap[ti].emplace_back(caller)
ReceiverEmplaceBack(list, this, caller) == Append(list, caller)

\* Number of registerFunc calls so far.
RECURSIVE SumLen(_, _)
SumLen(f, S) ==
    IF S = {} THEN 0
    ELSE LET x == CHOOSE y \in S : TRUE IN Len(f[x]) + SumLen(f, S \ {x})

NumRegistrations == SumLen(regLog, EventTypes)

\* EventHandler::registerFunc<T, ET>(caller, func), called on handler this
RegisterFunc(this, caller, ti, func) ==
    /\ UNCHANGED <<registryVars, entityVars, observerVars>>
    /\ this \in liveHandler
    /\ caller \in liveHandler
    /\ NumRegistrations < MaxRegistrations
    /\ m_funcMap' = [m_funcMap EXCEPT
                        ![this] = FuncMapAssign(@, ti, FuncWrapper(caller, func))]
    /\ m_receiverMap' = [m_receiverMap EXCEPT
                            ![ti] = ReceiverEmplaceBack(@, this, caller)]
    /\ regLog' = [regLog EXCEPT
                    ![ti] = Append(@, [this |-> this, caller |-> caller])]
    /\ bindings' = [bindings EXCEPT
                      ![this][ti] = Append(@, FuncWrapper(caller, func))]
    /\ evOp' = [NoEvOp EXCEPT !.op = "registerFunc"]
    /\ delivered' = <<>>
    /\ invoked' = <<>>
    /\ ub' = FALSE
    /\ UNCHANGED liveHandler

\* The calls handleEvent makes on handler h for an event of type ti: the
\* wrapper bound to ti in h's own m_funcMap, if any.  A destroyed handler has
\* no table to look up.
HandleEventCalls(h, ti) ==
    IF h \in liveHandler /\ ti \in DOMAIN m_funcMap[h]
    THEN <<call(m_funcMap[h][ti])>>
    ELSE <<>>

\* handleEvent on h dereferences a destroyed object: h itself, or the
\* m_caller of the wrapper it calls
HandleEventUndefined(h, ti) ==
    \/ h \notin liveHandler
    \/ /\ ti \in DOMAIN m_funcMap[h]
       /\ m_funcMap[h][ti].m_caller \notin liveHandler

\* The calls made by handleEvent on each of the first k targets, in order
RECURSIVE CallsOfTargets(_, _, _)
CallsOfTargets(targets, k, ti) ==
    IF k = 0 THEN <<>>
    ELSE CallsOfTargets(targets, k - 1, ti) \o HandleEventCalls(targets[k], ti)

\* EventHandler::handleEvent(evnt) on a live handler, evnt of type ti
HandleEvent(this, ti) ==
    /\ UNCHANGED <<registryVars, entityVars, observerVars>>
    /\ this \in liveHandler
    /\ evOp' = [NoEvOp EXCEPT !.op = "handleEvent", !.this = this, !.type = ti]
    /\ delivered' = <<this>>
    /\ ub' = HandleEventUndefined(this, ti)
    /\ IF HandleEventUndefined(this, ti)
       THEN invoked' \in {<<>>, HandleEventCalls(this, ti)}
       ELSE invoked' = HandleEventCalls(this, ti)
    /\ UNCHANGED <<liveHandler, m_funcMap, m_receiverMap, regLog, bindings>>

\* The handlers broadcast invokes handleEvent on, in order
BroadcastTargets(ti) == m_receiverMap[ti]

\* EventHandler::broadcast(evnt), evnt of type ti: handleEvent on every
\* instance of the receiver list of ti, in order.  When a listed instance has
\* been destroyed the behaviour is undefined: the run may end at any point.
Broadcast(ti) ==
    LET targets == BroadcastTargets(ti)
        undefined == \E i \in 1..Len(targets) : HandleEventUndefined(targets[i], ti)
    IN  /\ UNCHANGED <<registryVars, entityVars, observerVars>>
        /\ liveHandler # {}
        /\ evOp' = [NoEvOp EXCEPT !.op = "broadcast", !.type = ti]
        /\ ub' = undefined
        /\ \E k \in 0..Len(targets) :
              /\ undefined \/ k = Len(targets)
              /\ delivered' = SubSeq(targets, 1, k)
              /\ invoked' = CallsOfTargets(targets, k, ti)
        /\ UNCHANGED <<liveHandler, m_funcMap, m_receiverMap, regLog, bindings>>

\* Construction of an object that inherits EventHandler, at any address no
\* live handler occupies: m_funcMap starts empty
ConstructHandler(h) ==
    /\ UNCHANGED <<registryVars, entityVars, observerVars>>
    /\ h \notin liveHandler
    /\ liveHandler' = liveHandler \cup {h}
    /\ m_funcMap' = [m_funcMap EXCEPT ![h] = EmptyMap]
    /\ bindings' = [bindings EXCEPT ![h] = [ti \in EventTypes |-> <<>>]]
    /\ evOp' = [NoEvOp EXCEPT !.op = "EventHandler", !.this = h]
    /\ delivered' = <<>>
    /\ invoked' = <<>>
    /\ ub' = FALSE
    /\ UNCHANGED <<m_receiverMap, regLog>>

\* EventHandler::~EventHandler(): m_funcMap is destroyed with the object; the
\* static receiver lists are left as they are
DestroyHandler(h) ==
    /\ UNCHANGED <<registryVars, entityVars, observerVars>>
    /\ h \in liveHandler
    /\ liveHandler' = liveHandler \ {h}
    /\ m_funcMap' = [m_funcMap EXCEPT ![h] = EmptyMap]
    /\ bindings' = [bindings EXCEPT ![h] = [ti \in EventTypes |-> <<>>]]
    /\ evOp' = [NoEvOp EXCEPT !.op = "~EventHandler", !.this = h]
    /\ delivered' = <<>>
    /\ invoked' = <<>>
    /\ ub' = FALSE
    /\ UNCHANGED <<m_receiverMap, regLog>>

\* No handler exists; the static receiver directory is empty.
InitEvent ==
    /\ liveHandler = {}
    /\ m_funcMap = [h \in HandlerAddr |-> EmptyMap]
    /\ m_receiverMap = [ti \in EventTypes |-> <<>>]
    /\ regLog = [ti \in EventTypes |-> <<>>]
    /\ bindings = [h \in HandlerAddr |-> [ti \in EventTypes |-> <<>>]]
    /\ evOp = NoEvOp
    /\ delivered = <<>>
    /\ invoked = <<>>
    /\ ub = FALSE

\* Every handler address holds a constructed handler that has registered
\* nothing yet.
InitHandlers ==
    /\ liveHandler = HandlerAddr
    /\ m_funcMap = [h \in HandlerAddr |-> EmptyMap]
    /\ m_receiverMap = [ti \in EventTypes |-> <<>>]
    /\ regLog = [ti \in EventTypes |-> <<>>]
    /\ bindings = [h \in HandlerAddr |-> [ti \in EventTypes |-> <<>>]]
    /\ evOp = [NoEvOp EXCEPT !.op = "EventHandler"]
    /\ delivered = <<>>
    /\ invoked = <<>>
    /\ ub = FALSE

\* ------------------------------------------------- specifications
\* No Entity exists.
InitNoEntity ==
    /\ m_ref = <<>>
    /\ liveEntity = {}
    /\ nConstructed = 0
    /\ nDestroyed = 0
    /\ birth = [e \in EntityAddr |-> 0]
    /\ m_component = [e \in EntityAddr |-> <<>>]
    /\ m_active = [e \in EntityAddr |-> TRUE]
    /\ m_compActiveMap = [e \in EntityAddr |-> EmptyMap]
    /\ compType = [a \in CompAddr |-> "none"]
    /\ compActive = [a \in CompAddr |-> FALSE]
    /\ m_tag = [e \in EntityAddr |-> <<>>]
    /\ lastOp = NoOp
    /\ pending = NoPending

\* No object exists.
Init ==
    /\ m_ref = <<>>
    /\ liveEntity = {}
    /\ nConstructed = 0
    /\ nDestroyed = 0
    /\ birth = [e \in EntityAddr |-> 0]
    /\ m_component = [e \in EntityAddr |-> <<>>]
    /\ m_active = [e \in EntityAddr |-> TRUE]
    /\ m_compActiveMap = [e \in EntityAddr |-> EmptyMap]
    /\ compType = [a \in CompAddr |-> "none"]
    /\ compActive = [a \in CompAddr |-> FALSE]
    /\ m_tag = [e \in EntityAddr |-> <<>>]
    /\ lastOp = NoOp
    /\ pending = NoPending
    /\ InitEvent

\* One Entity has been constructed (at address 1) and holds no component yet.
InitEntity ==
    /\ m_ref = <<1>>
    /\ liveEntity = {1}
    /\ nConstructed = 1
    /\ nDestroyed = 0
    /\ birth = [e \in EntityAddr |-> IF e = 1 THEN 1 ELSE 0]
    /\ m_component = [e \in EntityAddr |-> <<>>]
    /\ m_active = [e \in EntityAddr |-> TRUE]
    /\ m_compActiveMap = [e \in EntityAddr |-> EmptyMap]
    /\ compType = [a \in CompAddr |-> "none"]
    /\ compActive = [a \in CompAddr |-> FALSE]
    /\ m_tag = [e \in EntityAddr |-> <<>>]
    /\ lastOp = [NoOp EXCEPT !.op = "Entity", !.ent = 1]
    /\ pending = NoPending
    /\ InitEvent

\* The handlers exist and have registered nothing; no Entity exists.
InitDispatch ==
    /\ InitNoEntity
    /\ InitHandlers

vars == <<m_ref, liveEntity, nConstructed, nDestroyed, birth, m_component,
          m_active,
          m_compActiveMap, compType, compActive, lastOp, pending,
          liveHandler, m_funcMap, m_receiverMap, regLog, bindings, evOp,
          delivered, invoked, ub, m_tag>>

\* The operations a caller performs on a live Entity and its components.
NextEntity ==
    \/ \E e \in EntityAddr, b \in BOOLEAN : SetActive(e, b)
    \/ \E e \in EntityAddr, T \in CompTypes : AddComponent(e, T)
    \/ \E e \in EntityAddr, T \in CompTypes : RemoveComponent(e, T)
    \/ \E e \in EntityAddr, b \in BOOLEAN : SetAllComponentsActive(e, b)
    \/ \E e \in EntityAddr, p \in CompAddr, b \in BOOLEAN : ComponentSetActive(e, p, b)

\* The tag operations a caller performs on a live Entity.
NextTags ==
    \/ \E e \in EntityAddr, tag \in Tags : AddTag(e, tag)
    \/ \E e \in EntityAddr, tag \in Tags : RemoveTag(e, tag)

\* The operations on a live Entity that change which components it owns or
\* whether it is Active.
NextComponents ==
    \/ \E e \in EntityAddr, b \in BOOLEAN : SetActive(e, b)
    \/ \E e \in EntityAddr, T \in CompTypes : AddComponent(e, T)
    \/ \E e \in EntityAddr, T \in CompTypes : RemoveComponent(e, T)

\* The operations on a live Entity that set component flags in bulk, with
\* the ones that give it components and tags.
NextActivation ==
    \/ \E e \in EntityAddr, b \in BOOLEAN : SetActive(e, b)
    \/ \E e \in EntityAddr, b \in BOOLEAN : SetAllComponentsActive(e, b)
    \/ \E e \in EntityAddr, T \in CompTypes : AddComponent(e, T)
    \/ \E e \in EntityAddr, tag \in Tags : AddTag(e, tag)

\* Construction and destruction of Entities, in any interleaving.
NextRegistry ==
    \/ \E e \in EntityAddr : ConstructEntity(e)
    \/ \E e \in EntityAddr : DestroyEntity(e)

\* Construction and destruction of handlers.
NextHandlerLifetime ==
    \/ \E h \in HandlerAddr : ConstructHandler(h)
    \/ \E h \in HandlerAddr : DestroyHandler(h)

\* Registration and dispatch.
NextEvent ==
    \/ \E h, c \in HandlerAddr, ti \in EventTypes, fn \in Funcs :
          RegisterFunc(h, c, ti, fn)
    \/ \E h \in HandlerAddr, ti \in EventTypes : HandleEvent(h, ti)
    \/ \E ti \in EventTypes : Broadcast(ti)

\* Registration as a derived class does it in its constructor or later: the
\* object registers its own member function, registerFunc(this, &T::f).
NextSelfRegistration ==
    \E h \in HandlerAddr, ti \in EventTypes, fn \in Funcs :
        RegisterFunc(h, h, ti, fn)

\* Dispatch of an event to one handler or to the receiver list of its type.
NextDispatch ==
    \/ \E h \in HandlerAddr, ti \in EventTypes : HandleEvent(h, ti)
    \/ \E ti \in EventTypes : Broadcast(ti)

SpecEntity == InitEntity /\ [][NextEntity]_vars
SpecRegistry == Init /\ [][NextRegistry]_vars
SpecActivation == InitEntity /\ [][NextActivation]_vars
SpecTags == InitEntity /\ [][NextTags \/ NextComponents]_vars
SpecEvent == InitDispatch /\ [][NextEvent]_vars
SpecEventLifetime ==
    Init /\ [][NextSelfRegistration \/ NextDispatch \/ NextHandlerLifetime]_vars


\* ------------------------------------------------- properties: Entity
\* C1: for an Entity whose components have the active flags a1..an,
\* setActive(false) followed immediately by setActive(true) leaves every
\* component's flag equal to the flag it had before the two calls.
C1_SuspendResumeRestores ==
    pending.kind = "resumed" =>
        \A p \in Range(m_component[pending.ent]) :
            compActive[p] = pending.flags[p]

\* C1 witness: a suspend/resume pair has acted on an Entity that held one
\* active and one inactive component.
C1_Witness ==
    /\ pending.kind = "resumed"
    /\ \E p, q \in Range(m_component[pending.ent]) :
         /\ pending.flags[p] /\ compActive[p]
         /\ ~pending.flags[q] /\ ~compActive[q]

\* C2 (as claimed): after addComponent<T>(), getComponent<T>() returns the
\* component that call created, whatever the Entity already holds.
C2_AddThenGetReturnsAdded ==
    lastOp.op = "addComponent" =>
        getComponent(lastOp.ent, lastOp.type) = lastOp.addr

\* C2 (amended): after addComponent<T>() on an Entity that held no component
\* of type T, getComponent<T>() returns the component that call created.
C2_AddThenGetReturnsAddedIfFirst ==
    (lastOp.op = "addComponent" /\ lastOp.n = 0) =>
        getComponent(lastOp.ent, lastOp.type) = lastOp.addr

\* C2 witness: a component of a new type was added to an Entity that already
\* held a component of another type, and is the one getComponent returns.
C2_Witness ==
    /\ lastOp.op = "addComponent"
    /\ lastOp.n = 0
    /\ Len(m_component[lastOp.ent]) >= 2
    /\ getComponent(lastOp.ent, lastOp.type) = lastOp.addr

\* C3 (as claimed): after removeComponent<T>(), getComponent<T>() returns
\* null, in any reachable state.
C3_RemoveThenGetIsNull ==
    lastOp.op = "removeComponent" =>
        getComponent(lastOp.ent, lastOp.type) = Null

\* C3 (amended): after removeComponent<T>() on an Entity that held at most
\* one component of type T, getComponent<T>() returns null.
C3_RemoveThenGetIsNullIfSingle ==
    (lastOp.op = "removeComponent" /\ lastOp.n <= 1) =>
        getComponent(lastOp.ent, lastOp.type) = Null

\* C3 witness: the only component of type T was removed from an Entity that
\* keeps a component of another type.
C3_Witness ==
    /\ lastOp.op = "removeComponent"
    /\ lastOp.n = 1
    /\ lastOp.addr # Null
    /\ Len(m_component[lastOp.ent]) >= 1
    /\ getComponent(lastOp.ent, lastOp.type) = Null

\* C4: every key of an Entity's restoration map is a component the Entity
\* currently owns.
C4_MapKeysAreOwned ==
    \A e \in EntityAddr :
        DOMAIN m_compActiveMap[e] \subseteq Range(m_component[e])

\* C4 witness: a component with a saved flag was removed from a suspended
\* Entity and the next addComponent allocated the new component at the same
\* address, while another saved entry is still in the map.
C4_Witness ==
    /\ lastOp.op = "addComponent"
    /\ lastOp.b
    /\ ~m_active[lastOp.ent]
    /\ DOMAIN m_compActiveMap[lastOp.ent] # {}
    /\ lastOp.addr \notin DOMAIN m_compActiveMap[lastOp.ent]

\* C10: a component added while the Entity is suspended has no entry in the
\* restoration map and the active flag true, and a setActive(true) that
\* follows leaves its flag (true) unchanged.
C10_AddedWhileSuspendedKeepsFlag ==
    /\ (lastOp.op = "addComponent" /\ ~m_active[lastOp.ent]) =>
          /\ lastOp.addr \notin DOMAIN m_compActiveMap[lastOp.ent]
          /\ compActive[lastOp.addr] = TRUE
    /\ (lastOp.op = "setActive" /\ lastOp.b /\ lastOp.addr # Null) =>
          /\ lastOp.addr \notin DOMAIN m_compActiveMap[lastOp.ent]
          /\ compActive[lastOp.addr] = TRUE

\* C10 witness: an Entity with a saved inactive component was resumed right
\* after a component was added to it while suspended.
C10_Witness ==
    /\ lastOp.op = "setActive"
    /\ lastOp.b
    /\ lastOp.addr # Null
    /\ m_active[lastOp.ent]
    /\ \E q \in DOMAIN m_compActiveMap[lastOp.ent] : ~compActive[q]
    /\ compActive[lastOp.addr]

\* ------------------------------------------------- properties: AutoList
\* Number of occurrences of x in a sequence.
Count(seq, x) == Cardinality({i \in 1..Len(seq) : seq[i] = x})

\* C7: after N constructions and M destructions in any interleaving, size()
\* is N - M and get(i) is a live instance for every i in 0..size()-1.
C7_RegistryTracksLiveInstances ==
    /\ size = nConstructed - nDestroyed
    /\ \A i \in 0..(size - 1) : get(i) \in liveEntity

\* C7 witness: constructions and destructions have interleaved, with an
\* address reused, and two instances are registered.
C7_Witness ==
    /\ nConstructed >= 4
    /\ nDestroyed >= 2
    /\ size = 2
    /\ lastOp.op = "Entity"


\* C17: the registry holds each live instance exactly once and in
\* construction order: get(i) is the (i+1)-th oldest live instance.  A
\* destruction therefore removes only the destroyed instance and keeps the
\* relative order of the others.
C17_RegistryInConstructionOrder ==
    /\ Range(m_ref) = liveEntity
    /\ \A e \in liveEntity : Count(m_ref, e) = 1
    /\ \A i \in 0..(size - 1) :
          Cardinality({x \in liveEntity : birth[x] < birth[get(i)]}) = i

\* C17 witness: an instance that was not the youngest has just been
\* destroyed, two instances are left and the older one lives at the higher
\* address (an address was reused).
C17_Witness ==
    /\ lastOp.op = "~Entity"
    /\ lastOp.n <= size
    /\ size = 2
    /\ get(0) > get(1)
    /\ birth[get(0)] < birth[get(1)]


\* ------------------------------------------------- properties: EventHandler
\* C5: handleEvent on handler H with an event of a type that H has a
\* registration for invokes the registered function (of the last
\* registration) once and nothing else; with an event of a type H has no
\* registration for it invokes nothing and leaves the handler tables, the
\* receiver directory and the set of live handlers as they were.
C5_HandleEventInvokesRegistered ==
    [][ (evOp'.op = "handleEvent" /\ ~ub') =>
          LET regs == bindings[evOp'.this][evOp'.type]
          IN  /\ regs # <<>> =>
                    invoked' = << [object |-> regs[Len(regs)].m_caller,
                                   func |-> regs[Len(regs)].m_func] >>
              /\ regs = <<>> =>
                    /\ invoked' = <<>>
                    /\ UNCHANGED <<liveHandler, m_funcMap, m_receiverMap>>
      ]_vars

\* C5 witness: handleEvent has acted on a handler with an event of a type it
\* registered for and made one call, while the handler has no registration
\* for the other event type.
C5_Witness ==
    /\ evOp.op = "handleEvent"
    /\ ~ub
    /\ Len(invoked) = 1
    /\ Len(bindings[evOp.this][evOp.type]) = 1
    /\ \E ti \in EventTypes : bindings[evOp.this][ti] = <<>>

\* C6 (as claimed): broadcast of an event of type X invokes handleEvent on
\* exactly the handler instances registerFunc was called on for X, in the
\* order of the calls, whatever caller argument the calls were given.
C6_BroadcastReachesRegistrants ==
    (evOp.op = "broadcast" /\ ~ub) =>
        delivered = [i \in 1..Len(regLog[evOp.type]) |-> regLog[evOp.type][i].this]

\* C8: after registerFunc for type X with f and then with g on the same
\* handler instance, handleEvent with an event of type X makes one call, of
\* the function registered last, and none of the function it replaced.
C8_ReRegistrationReplaces ==
    (evOp.op = "handleEvent" /\ ~ub /\ Len(bindings[evOp.this][evOp.type]) >= 2) =>
        LET regs == bindings[evOp.this][evOp.type]
        IN  /\ Len(invoked) = 1
            /\ invoked[1].func = regs[Len(regs)].m_func
            /\ invoked[1].object = regs[Len(regs)].m_caller

\* C8 witness: handleEvent has acted on a handler that registered f and then
\* a different function g for the event's type, and called g.
C8_Witness ==
    /\ evOp.op = "handleEvent"
    /\ ~ub
    /\ Len(bindings[evOp.this][evOp.type]) = 2
    /\ bindings[evOp.this][evOp.type][1].m_func # bindings[evOp.this][evOp.type][2].m_func
    /\ Len(invoked) = 1
    /\ invoked[1].func = bindings[evOp.this][evOp.type][2].m_func

\* C9: every registerFunc call adds one entry for its instance (the caller
\* argument) to the receiver list of the event type: an instance registered
\* k times for X is listed k times for X, and one broadcast of an X event
\* invokes handleEvent on it k times.
C9_OneReceiverEntryPerRegistration ==
    /\ \A ti \in EventTypes, c \in HandlerAddr :
          Count(m_receiverMap[ti], c) =
              Cardinality({i \in 1..Len(regLog[ti]) : regLog[ti][i].caller = c})
    /\ (evOp.op = "broadcast" /\ ~ub) =>
          \A c \in HandlerAddr :
              Count(delivered, c) =
                  Cardinality({i \in 1..Len(regLog[evOp.type]) :
                                  regLog[evOp.type][i].caller = c})

\* C9 witness: an instance registered twice for one event type and a
\* broadcast of that type has invoked handleEvent on it twice.
C9_Witness ==
    /\ evOp.op = "broadcast"
    /\ ~ub
    /\ \E c \in HandlerAddr :
          /\ Count(delivered, c) = 2
          /\ Count(m_receiverMap[evOp.type], c) = 2
    /\ Len(invoked) = 2


\* ------------------------------------------------- properties: Entity (continued)
\* C11: after setActive(false) one or more times in a row and then
\* setActive(true), every component has the flag it had before the first of
\* these setActive(false) calls.
C11_RepeatedSuspendKeepsSavedFlags ==
    pending.kind = "resumed" =>
        \A p \in Range(m_component[pending.ent]) :
            compActive[p] = pending.first[p]


\* C12: setActive(true) on an Entity that is already Active changes no
\* component's active flag.
C12_ResumeOfActiveEntityChangesNothing ==
    (lastOp.op = "setActive" /\ lastOp.b /\ lastOp.type = "Active") =>
        lastOp.n = 0


\* C13: getComponent<T> and removeComponent<T> act on the first-attached
\* component of type T.  In every step: the component getComponent<T>
\* returned before the step is still the one returned after it as long as it
\* is still attached (so a later-attached component of type T is never
\* returned while an earlier one is attached), and a removeComponent<T> that
\* finds a component removes exactly the one getComponent<T> returned.
C13_FirstAttachedOfTypeIsTheOneUsed ==
    [][ \A e \in liveEntity, T \in CompTypes :
          LET first == getComponent(e, T)
          IN  /\ (first # Null /\ first \in Range(m_component'[e])) =>
                    getComponent(e, T)' = first
              /\ (lastOp'.op = "removeComponent" /\ lastOp'.ent = e
                    /\ lastOp'.type = T /\ first # Null) =>
                    /\ Range(m_component'[e]) = Range(m_component[e]) \ {first}
                    /\ Len(m_component'[e]) = Len(m_component[e]) - 1
      ]_vars

\* C13 witness: removeComponent<T> has acted on an Entity that held two
\* components of type T; one of them is still attached and is now the one
\* getComponent<T> returns.
C13_Witness ==
    /\ lastOp.op = "removeComponent"
    /\ lastOp.n = 2
    /\ getComponent(lastOp.ent, lastOp.type) # Null
    /\ getComponent(lastOp.ent, lastOp.type) # lastOp.addr
    /\ CountOfType(m_component[lastOp.ent], lastOp.type) = 1


\* C15: setAllComponentsActive(b) sets the active flag of every component the
\* Entity owns to b and leaves the Entity's own active flag, the restoration
\* map, the component collection, the tags and every object the Entity does
\* not own unchanged (so active() of a Suspended Entity stays false); and when
\* setActive(true) follows a suspension with calls of setAllComponentsActive
\* in between, every owned component gets the flag saved at the suspension.
C15_SetAllComponentsActiveFrame ==
    [][ /\ \A e \in liveEntity :
              (lastOp'.op = "setAllComponentsActive" /\ lastOp'.ent = e) =>
                 /\ \A p \in Range(m_component[e]) : compActive'[p] = lastOp'.b
                 /\ \A p \in CompAddr \ Range(m_component[e]) :
                        compActive'[p] = compActive[p]
                 /\ UNCHANGED <<m_active, m_compActiveMap, m_component, m_tag>>
        /\ pending'.kind = "resumedAfterSetAll" =>
              /\ m_active'[pending'.ent]
              /\ \A p \in Range(m_component'[pending'.ent]) :
                    compActive'[p] = pending'.flags[p] ]_vars

\* A tagged, Suspended Entity with two components, one saved as inactive, had
\* all its components set active and was then resumed.
C15_Witness ==
    /\ pending.kind = "resumedAfterSetAll"
    /\ lastOp.op = "setActive"
    /\ m_tag[pending.ent] # <<>>
    /\ Len(m_component[pending.ent]) = 2
    /\ \E p, q \in Range(m_component[pending.ent]) :
          pending.flags[p] /\ ~pending.flags[q]

\* ------------------------------------------------- properties: tags
\* The tag sequence the claim describes, written without the vector
\* operations: the sequence without the first occurrence of tag.
RECURSIVE WithoutFirst(_, _)
WithoutFirst(tags, tag) ==
    IF tags = <<>> THEN <<>>
    ELSE IF Head(tags) = tag THEN Tail(tags)
    ELSE <<Head(tags)>> \o WithoutFirst(Tail(tags), tag)

Occurs(tags, tag) == \E i \in 1..Len(tags) : tags[i] = tag

C18_AbsenceIsANoOp ==
    [][ \A e \in liveEntity :
          /\ \A T \in CompTypes :
                ( /\ lastOp'.op = "removeComponent"
                  /\ lastOp'.ent = e
                  /\ lastOp'.type = T
                  /\ CountOfType(m_component[e], T) = 0 ) =>
                    /\ UNCHANGED <<m_component, compActive, compType,
                                   m_compActiveMap, m_tag, m_active>>
                    /\ getComponent(e, T)' = Null
          /\ \A t \in Tags :
                ( /\ lastOp'.op = "removeTag"
                  /\ lastOp'.ent = e
                  /\ lastOp'.type = t
                  /\ ~Occurs(m_tag[e], t) ) =>
                    /\ UNCHANGED <<m_component, compActive, compType,
                                   m_compActiveMap, m_tag, m_active>>
                    /\ ~hasTag(e, t)' ]_vars

\* removeTag(t) was called on a Suspended Entity that has another tag, a
\* component and a saved flag, but not the tag t.
C18_Witness ==
    /\ lastOp.op = "removeTag"
    /\ lastOp.n = 0
    /\ m_tag[lastOp.ent] # <<>>
    /\ m_component[lastOp.ent] # <<>>
    /\ DOMAIN m_compActiveMap[lastOp.ent] # {}
    /\ ~m_active[lastOp.ent]

\* ------------------------------------------------- properties: EventHandler (continued)
\* C14: no operation, the destruction of a handler included, removes or
\* reorders an entry of a receiver list: each list only grows at its end.  A
\* handler that was destroyed after it was registered for X is therefore
\* still listed for X, and a broadcast of an X event walks the list that
\* holds it and dereferences the destroyed instance.
C14_ReceiverListOnlyGrows ==
    [][ \A ti \in EventTypes :
          /\ Len(m_receiverMap'[ti]) >= Len(m_receiverMap[ti])
          /\ SubSeq(m_receiverMap'[ti], 1, Len(m_receiverMap[ti])) = m_receiverMap[ti]
          /\ \A h \in HandlerAddr :
                (evOp'.op = "~EventHandler" /\ evOp'.this = h) =>
                    Count(m_receiverMap'[ti], h) =
                        Cardinality({i \in 1..Len(regLog[ti]) : regLog[ti][i].caller = h})
          /\ ( /\ evOp'.op = "broadcast"
               /\ evOp'.type = ti
               /\ \E h \in Range(m_receiverMap[ti]) : h \notin liveHandler ) =>
                    /\ ub'
                    /\ BroadcastTargets(ti) = m_receiverMap[ti]
                    /\ \E k \in 0..Len(m_receiverMap[ti]) :
                          delivered' = SubSeq(m_receiverMap[ti], 1, k) ]_vars

\* C14 witness: a broadcast has walked a receiver list that holds a destroyed
\* handler and invoked handleEvent on it.
C14_Witness ==
    /\ evOp.op = "broadcast"
    /\ ub
    /\ \E h \in Range(delivered) : h \notin liveHandler
    /\ delivered = m_receiverMap[evOp.type]

=========================================================================
